---- MODULE Spec2Model ----
(***************************************************************************)
(* The tabbed interaction controller of cmdtui (src/unnamed/part_000):     *)
(* model.Update with its three stages (global key bindings, focus-gated    *)
(* dispatch, forwarding of the message to the focused component),          *)
(* model.runCommand and model.filterOutput.                                *)
(*                                                                         *)
(* A string is a sequence of atoms.  An atom is a piece of text without a  *)
(* line break or a blank, or one of the two separator atoms "\n" and " ".  *)
(* strings.Fields, strings.Join and strings.Split are computed on that     *)
(* representation.                                                         *)
(***************************************************************************)
EXTENDS Integers, Sequences, FiniteSets, TLC

\* ------------------------------------------------------------------ bounds
\* Most messages the controller handles in one session.
MaxSteps == 6

\* Key events followed through the event loop, and how many of them wait.
MaxEvents == 4
MaxQueue == 2
\* Height of every viewport, in lines (config.lua: viewport.height -
\* textinput height - 4; kept small so that a short log already scrolls).
VpHeight == 2

\* --------------------------------------------------------------- constants
focusList == 0
focusViewport == 1
focusInput == 2
\* Number of focus states, the modulus of the focus arithmetic.
NumFocus == 3
\* len(m.viewports)
NumTabs == 3
\* currentIndex of initialModel: the completion cursor "none".
NoIndex == -1

NL == "\n"
SP == " "

\* The characters a rune key can carry besides the bound ones.
Runes == {"a", SP}

\* The Command Table of the session: three of the buttons of config.lua, two
\* that run directly and, between them, the one that prompts.
ConfigCommands ==
    << [name |-> <<"Echo", SP, "Hey">>,
        cmd |-> << <<"echo">>, <<"hey">> >>, prompt |-> FALSE],
       [name |-> <<"python", SP, "test">>,
        cmd |-> << <<"python3">>, <<"test.py">> >>, prompt |-> TRUE],
       [name |-> <<"Print", SP, "Working", SP, "Directory">>,
        cmd |-> << <<"pwd">> >>, prompt |-> FALSE] >>

\* The completion candidates a configuration can supply.
ConfigCompletions ==
    { << >>, << <<"a.txt">>, <<"b.txt">>, <<"c.txt">> >> }

\* What a child process writes when it succeeds.
ProcOutput == <<"hey", NL>>
\* err of c.Run(), formatted with %v.
ProcError == <<"exit status 1">>

\* ---------------------------------------------------------- Go arithmetic
Max(a, b) == IF a >= b THEN a ELSE b
Min(a, b) == IF a <= b THEN a ELSE b

\* Go's % truncates towards zero: the result has the sign of the dividend.
GoRem(a, n) == IF a >= 0 THEN a % n ELSE -((-a) % n)

\* ------------------------------------------------------------ Go strings
RECURSIVE Join(_, _)
\* strings.Join(elems, sep)
Join(elems, sep) ==
    IF elems = << >> THEN << >>
    ELSE IF Len(elems) = 1 THEN elems[1]
    ELSE elems[1] \o sep \o Join(Tail(elems), sep)

RECURSIVE SplitFrom(_, _, _)
\* The segments of s between the atoms sep, cur being the segment begun.
SplitFrom(s, sep, cur) ==
    IF s = << >> THEN <<cur>>
    ELSE IF Head(s) = sep THEN <<cur>> \o SplitFrom(Tail(s), sep, << >>)
    ELSE SplitFrom(Tail(s), sep, Append(cur, Head(s)))

\* strings.Split(s, sep): n separators give n+1 segments, empty ones kept.
Split(s, sep) == SplitFrom(s, sep, << >>)

\* strings.Fields(s): the maximal runs of non-blank atoms, empty runs dropped.
Fields(s) == SelectSeq(Split(s, SP), LAMBDA w : w # << >>)

\* -------------------------------------------------------------- Go slices
\* A []string is its backing array (cap slots, the unused ones holding "")
\* and its length.  The strings of the slice are the first len slots.
SliceValue(s) == SubSeq(s.arr, 1, s.len)

\* The capacity append gives a slice grown one element at a time from nil:
\* it doubles whenever the array is full.
GoCap(n) == IF n <= 2 THEN n ELSE IF n <= 4 THEN 4 ELSE 8

\* extractCmd: the argv of a button, appended word by word to a nil slice.
extractCmd(words) ==
    [arr |-> [i \in 1..GoCap(Len(words)) |->
                 IF i <= Len(words) THEN words[i] ELSE << >>],
     len |-> Len(words)]

\* append(s, x): the slice returned, and the operand as it is afterwards.
\* With spare capacity x is written into the operand's own backing array,
\* in the slot after its last string; otherwise into a larger copy.
GoAppend(s, x) ==
    IF s.len < Len(s.arr)
    THEN LET arr == [s.arr EXCEPT ![s.len + 1] = x]
         IN  [slice |-> [arr |-> arr, len |-> s.len + 1],
              operand |-> [arr |-> arr, len |-> s.len]]
    ELSE LET grown == [i \in 1..GoCap(s.len + 1) |->
                          IF i <= s.len THEN s.arr[i]
                          ELSE IF i = s.len + 1 THEN x ELSE << >>]
         IN  [slice |-> [arr |-> grown, len |-> s.len + 1], operand |-> s]

\* ------------------------------------------------- bubbles viewport.Model
\* A viewport: the content it was given and YOffset, its scroll position.
NumLines(s) == Len(Split(s, NL))

\* viewport.Model.maxYOffset
MaxYOffset(vp) == Max(0, NumLines(vp.content) - VpHeight)

\* viewport.Model.GotoBottom
GotoBottom(vp) == [vp EXCEPT !.yOffset = MaxYOffset(vp)]

\* viewport.Model.SetContent: the offset is kept unless it is past the end.
SetContent(vp, s) ==
    LET set == [vp EXCEPT !.content = s]
    IN  IF vp.yOffset > NumLines(s) - 1 THEN GotoBottom(set) ELSE set

\* viewport.Model.Update: the keys that scroll by a line or by a page.
ViewportUpdate(vp, msg) ==
    IF msg.type # "key" THEN vp
    ELSE IF msg.key = "down"
         THEN [vp EXCEPT !.yOffset = Min(@ + 1, MaxYOffset(vp))]
    ELSE IF msg.key = "up"
         THEN [vp EXCEPT !.yOffset = Max(@ - 1, 0)]
    ELSE IF msg.key = "rune" /\ msg.ch = SP
         THEN [vp EXCEPT !.yOffset = Min(@ + VpHeight, MaxYOffset(vp))]
    ELSE vp

\* ---------------------------------------------------- bubbles list.Model
\* A list: filterState, the visible items (indexes into the item list, which
\* is the Command Table in order), the cursor among the visible items, and
\* whether the filter input holds text.
AllItems(n) == [i \in 1..n |-> i]

\* list.Model.Index: the cursor, a position among the VISIBLE items.
Index(l) == l.cursor

\* list.Model.SelectedItem: the highlighted item, 0 when there is none.
SelectedItem(l) ==
    IF l.cursor < Len(l.visible) THEN l.visible[l.cursor + 1] ELSE 0

\* list.Model.resetFiltering
ResetFiltering(l, n) ==
    [state |-> "unfiltered", visible |-> AllItems(n),
     cursor |-> Min(l.cursor, n - 1), text |-> FALSE]

\* list.Model.Update.  Returns the list and whether it asked to quit.
ListUpdate(l, msg, n) ==
    IF msg.type = "matches"
    THEN [list |-> [l EXCEPT !.visible = msg.vis, !.cursor = 0], quit |-> FALSE]
    ELSE IF msg.type # "key" THEN [list |-> l, quit |-> FALSE]
    ELSE IF l.state = "filtering"
    THEN \* handleFiltering
         IF msg.key = "esc"
         THEN [list |-> ResetFiltering(l, n), quit |-> FALSE]
         ELSE IF msg.key \in {"enter", "tab", "up", "down"}
         THEN [list |-> IF l.visible = << >> \/ ~l.text
                        THEN ResetFiltering(l, n)
                        ELSE [l EXCEPT !.state = "applied"],
               quit |-> FALSE]
         ELSE IF msg.key \in {"rune", "?", "]", "[", "/"}
         THEN [list |-> [l EXCEPT !.text = TRUE], quit |-> FALSE]
         ELSE [list |-> l, quit |-> FALSE]
    ELSE \* handleBrowsing
         IF msg.key = "down"
         THEN [list |-> [l EXCEPT !.cursor =
                            IF @ + 1 < Len(l.visible) THEN @ + 1 ELSE @],
               quit |-> FALSE]
         ELSE IF msg.key = "up"
         THEN [list |-> [l EXCEPT !.cursor = Max(@ - 1, 0)], quit |-> FALSE]
         ELSE IF msg.key = "/"
         THEN [list |-> [l EXCEPT !.state = "filtering", !.cursor = 0,
                                  !.visible = IF l.text THEN @ ELSE AllItems(n)],
               quit |-> FALSE]
         ELSE IF msg.key = "esc"
         THEN IF l.state = "applied"
              THEN [list |-> ResetFiltering(l, n), quit |-> FALSE]
              ELSE [list |-> l, quit |-> TRUE]
         ELSE [list |-> l, quit |-> FALSE]

\* ------------------------------------------------ bubbles textinput.Model
\* textinput.Model.Update: a character key inserts its character at the
\* cursor, which SetValue leaves at the end; the input is never blurred.
InputUpdate(v, msg) ==
    IF msg.type # "key" THEN v
    ELSE IF msg.key = "rune" THEN Append(v, msg.ch)
    ELSE IF msg.key \in {"?", "]", "[", "/"} THEN Append(v, msg.key)
    ELSE v

\* ------------------------------------------------------------- messages
\* A tea.Msg: a key press (with the character of a rune key, the outcome of
\* the child process a run would start, and the line the fuzzy finder would
\* return, -1 for an abort), a left click, or the list's FilterMatchesMsg.
Msg(type, k, ch, ok, pick, vis) ==
    [type |-> type, key |-> k, ch |-> ch, ok |-> ok, pick |-> pick, vis |-> vis]
KeyMsg(k) == Msg("key", k, "", TRUE, -1, << >>)

\* The panes of the frame a pointer event can fall on.
Panes == {focusList, focusViewport, focusInput}

\* A tea.MouseMsg of type MouseLeft; its X and Y put it on a pane.
MouseMsg(pane) == Msg("mouse", "", "", TRUE, -1, << >>) @@ [pane |-> pane]

\* The results the list's filter can deliver: the rows matching some text.
FilterResults == { <<2>>, <<3>> }

\* ------------------------------------------------------------ the model
VARIABLES
    list,          \* m.list
    viewports,     \* m.viewports, one per tab
    input,         \* m.input.Value()
    output,        \* m.output
    focus,         \* m.focus
    commands,      \* m.commands
    showHelp,      \* m.showHelp
    completions,   \* m.completions
    currentIndex,  \* m.currentIndex
    prompInput,    \* m.prompInput
    currentTab,    \* m.currentTab
    quit,          \* Update has returned tea.Quit
    spawned,       \* the argv of every process started in the last step
    tabLog,        \* per tab, what was appended to m.output while it was active
    pendingCommand,      \* the prompting command selected and not yet submitted
    promptedSinceSubmit, \* a prompting command was selected since the last submit
    advCount,      \* consecutive completion-advances counted from cursor "none"
    found,         \* what fuzzyfinder.Find returned in the last step, if called
    shown,         \* per tab, m.output as its last run or refresh displayed it
    steps,         \* the messages handled so far
    pc,            \* where the event loop is: "idle", or in a run of a command
    children,      \* the argv of every child process in flight
    msgs,          \* the key events read and not yet given to Update
    logMark        \* during a run, len(m.output) when Update was entered

vars == <<list, viewports, input, output, focus, commands, showHelp,
          completions, currentIndex, prompInput, currentTab, quit, spawned,
          tabLog, pendingCommand, promptedSinceSubmit, advCount, found,
          shown, steps, pc, children, msgs, logMark>>

\* The state of the model value and what is recorded about its steps.
modelVars == <<list, viewports, input, output, focus, commands, showHelp,
               completions, currentIndex, prompInput, currentTab, quit,
               spawned, tabLog, pendingCommand, promptedSinceSubmit, advCount,
               found, shown>>

\* The state of the event loop around Update.
runVars == <<pc, children, msgs, logMark>>

\* The model value m of Update, with what the call has done so far.
M == [list |-> list, viewports |-> viewports, input |-> input,
      output |-> output, focus |-> focus, commands |-> commands,
      showHelp |-> showHelp, completions |-> completions,
      currentIndex |-> currentIndex, prompInput |-> prompInput,
      currentTab |-> currentTab, quit |-> FALSE, spawned |-> << >>,
      tabLog |-> tabLog, returned |-> FALSE, found |-> << >>,
      shown |-> shown, forwarded |-> << >>]

\* initialModel
Init ==
    /\ commands = ConfigCommands
    /\ completions \in ConfigCompletions
    /\ list = [state |-> "unfiltered", visible |-> AllItems(Len(ConfigCommands)),
               cursor |-> 0, text |-> FALSE]
    /\ viewports = << [content |-> <<"Output will be displayed here...">>,
                       yOffset |-> 0] >>
                   \o [i \in 1..(NumTabs - 1) |-> [content |-> << >>, yOffset |-> 0]]
    /\ input = << >>
    /\ output = << >>
    /\ focus = focusList
    /\ showHelp = TRUE
    /\ currentIndex = NoIndex
    /\ prompInput = FALSE
    /\ currentTab = 0
    /\ quit = FALSE
    /\ spawned = << >>
    /\ tabLog = [i \in 1..NumTabs |-> << >>]
    /\ pendingCommand = 0
    /\ promptedSinceSubmit = FALSE
    /\ advCount = 0
    /\ found = << >>
    /\ shown = [i \in 1..NumTabs |-> << >>]
    /\ steps = 0
    /\ pc = "idle"
    /\ children = << >>
    /\ msgs = << >>
    /\ logMark = << >>

\* A runCommand that always draws into the first tab's viewport.
runCommandFirstTab(m, cmd, ok) ==
    IF Len(cmd.cmd) = 0 THEN m
    ELSE IF cmd.prompt
    THEN [m EXCEPT !.input = << >>, !.focus = focusInput]
    ELSE LET entry == <<"Running command: ">> \o Join(cmd.cmd, <<SP>>) \o <<NL>>
                      \o (IF ok THEN ProcOutput
                          ELSE <<"Error: ">> \o ProcError \o <<NL>>)
             out == m.output \o entry
         IN  [m EXCEPT !.output = out,
                       !.spawned = Append(@, cmd.cmd),
                       !.tabLog[m.currentTab + 1] = @ \o entry,
                       !.viewports[1] = GotoBottom(SetContent(@, out)),
                       !.input = << >>,
                       !.focus = focusList,
                       !.prompInput = FALSE]

\* A runCommand that sets the content and leaves the scroll position alone.
runCommandNoScroll(m, cmd, ok) ==
    IF Len(cmd.cmd) = 0 THEN m
    ELSE IF cmd.prompt
    THEN [m EXCEPT !.input = << >>, !.focus = focusInput]
    ELSE LET entry == <<"Running command: ">> \o Join(cmd.cmd, <<SP>>) \o <<NL>>
                      \o (IF ok THEN ProcOutput
                          ELSE <<"Error: ">> \o ProcError \o <<NL>>)
             out == m.output \o entry
         IN  [m EXCEPT !.output = out,
                       !.spawned = Append(@, cmd.cmd),
                       !.tabLog[m.currentTab + 1] = @ \o entry,
                       !.viewports[m.currentTab + 1] = SetContent(@, out),
                       !.input = << >>,
                       !.focus = focusList,
                       !.prompInput = FALSE]

\* A runCommand that leaves focus on the Viewport when the child process fails.
runCommandErrToViewport(m, cmd, ok) ==
    IF Len(cmd.cmd) = 0 THEN m
    ELSE IF cmd.prompt
    THEN [m EXCEPT !.input = << >>, !.focus = focusInput]
    ELSE LET entry == <<"Running command: ">> \o Join(cmd.cmd, <<SP>>) \o <<NL>>
                      \o (IF ok THEN ProcOutput
                          ELSE <<"Error: ">> \o ProcError \o <<NL>>)
             out == m.output \o entry
         IN  [m EXCEPT !.output = out,
                       !.spawned = Append(@, cmd.cmd),
                       !.tabLog[m.currentTab + 1] = @ \o entry,
                       !.viewports[m.currentTab + 1] = GotoBottom(SetContent(@, out)),
                       !.input = << >>,
                       !.focus = IF ok THEN focusList ELSE focusViewport,
                       !.prompInput = FALSE]

\* A runCommand that assigns the entry to m.output instead of appending it.
runCommandOverwrite(m, cmd, ok) ==
    IF Len(cmd.cmd) = 0 THEN m
    ELSE IF cmd.prompt
    THEN [m EXCEPT !.input = << >>, !.focus = focusInput]
    ELSE LET entry == <<"Running command: ">> \o Join(cmd.cmd, <<SP>>) \o <<NL>>
                      \o (IF ok THEN ProcOutput
                          ELSE <<"Error: ">> \o ProcError \o <<NL>>)
             out == entry
         IN  [m EXCEPT !.output = out,
                       !.spawned = Append(@, cmd.cmd),
                       !.tabLog[m.currentTab + 1] = @ \o entry,
                       !.viewports[m.currentTab + 1] = GotoBottom(SetContent(@, out)),
                       !.input = << >>,
                       !.focus = focusList,
                       !.prompInput = FALSE]

\* model.runCommand
runCommand(m, cmd, ok) ==
    IF Len(cmd.cmd) = 0 THEN m
    ELSE IF cmd.prompt
    THEN [m EXCEPT !.input = << >>, !.focus = focusInput]
    ELSE LET entry == <<"Running command: ">> \o Join(cmd.cmd, <<SP>>) \o <<NL>>
                      \o (IF ok THEN ProcOutput
                          ELSE <<"Error: ">> \o ProcError \o <<NL>>)
             out == m.output \o entry
         IN  [m EXCEPT !.output = out,
                       !.spawned = Append(@, cmd.cmd),
                       !.tabLog[m.currentTab + 1] = @ \o entry,
                       !.viewports[m.currentTab + 1] = GotoBottom(SetContent(@, out)),
                       !.shown[m.currentTab + 1] = <<out>>,
                       !.input = << >>,
                       !.focus = focusList,
                       !.prompInput = FALSE]

\* A filterOutput that stores the selected line as the log as well.
filterOutputTruncating(m, pick) ==
    LET lines == Split(m.output, NL)
    IN  IF pick >= 0 /\ pick < Len(lines)
        THEN [m EXCEPT !.viewports[m.currentTab + 1] = SetContent(@, lines[pick + 1]),
                       !.output = lines[pick + 1],
                       !.found = <<pick>>]
        ELSE [m EXCEPT !.found = <<pick>>]

\* A filterOutput that blanks the viewport when the finder returns an error.
filterOutputAbortClears(m, pick) ==
    LET lines == Split(m.output, NL)
    IN  IF pick >= 0 /\ pick < Len(lines)
        THEN [m EXCEPT !.viewports[m.currentTab + 1] = SetContent(@, lines[pick + 1]),
                       !.found = <<pick>>]
        ELSE [m EXCEPT !.viewports[m.currentTab + 1] = SetContent(@, << >>),
                       !.found = <<pick>>]

\* A filterOutput that displays the selected line with its line break.
filterOutputKeepsBreak(m, pick) ==
    LET lines == Split(m.output, NL)
    IN  IF pick >= 0 /\ pick < Len(lines)
        THEN [m EXCEPT !.viewports[m.currentTab + 1] =
                           SetContent(@, Append(lines[pick + 1], NL)),
                       !.found = <<pick>>]
        ELSE [m EXCEPT !.found = <<pick>>]

\* model.filterOutput: pick is the index fuzzyfinder.Find returns, -1 its error.
filterOutput(m, pick) ==
    LET lines == Split(m.output, NL)
    IN  IF pick >= 0 /\ pick < Len(lines)
        THEN [m EXCEPT !.viewports[m.currentTab + 1] = SetContent(@, lines[pick + 1]),
                       !.found = <<pick>>]
        ELSE [m EXCEPT !.found = <<pick>>]

\* A next-tab index that is not reduced modulo len(m.viewports).
NextTabIndexNoMod(i, n) == i + 1

\* model.Update, keys.NextTab: (m.currentTab + 1) % len(m.viewports)
NextTabIndex(i, n) == GoRem(i + 1, n)

\* A previous-tab index computed without adding len(m.viewports) first.
PrevTabIndexNoWrap(i, n) == GoRem(i - 1, n)

\* model.Update, keys.PrevTab:
\* (m.currentTab - 1 + len(m.viewports)) % len(m.viewports)
PrevTabIndex(i, n) == GoRem(i - 1 + n, n)

\* A first switch whose quit binding is not served while focus is Input.
GlobalKeysQuitGated(m, msg) ==
    IF msg.key = "ctrl+n" THEN [m EXCEPT !.focus = GoRem(@ + 1, NumFocus)]
    ELSE IF msg.key = "ctrl+p" THEN [m EXCEPT !.focus = GoRem(@ + 2, NumFocus)]
    ELSE IF msg.key = "q" /\ m.focus # focusInput THEN [m EXCEPT !.quit = TRUE]
    ELSE IF msg.key = "?" THEN [m EXCEPT !.showHelp = ~@]
    ELSE IF msg.key = "ctrl+l"
    THEN IF m.focus = focusViewport
         THEN [m EXCEPT !.viewports[m.currentTab + 1] =
                            GotoBottom(SetContent(@, m.output)),
                        !.shown[m.currentTab + 1] = <<m.output>>]
         ELSE m
    ELSE IF msg.key = "]"
    THEN [m EXCEPT !.currentTab = NextTabIndex(@, Len(m.viewports))]
    ELSE IF msg.key = "["
    THEN [m EXCEPT !.currentTab = PrevTabIndex(@, Len(m.viewports))]
    ELSE m

\* A first switch whose previous-focus computes (m.focus - 1) % 3.
GlobalKeysPrevMinusOne(m, msg) ==
    IF msg.key = "ctrl+n" THEN [m EXCEPT !.focus = GoRem(@ + 1, NumFocus)]
    ELSE IF msg.key = "ctrl+p" THEN [m EXCEPT !.focus = GoRem(@ - 1, NumFocus)]
    ELSE IF msg.key = "q" THEN [m EXCEPT !.quit = TRUE]
    ELSE IF msg.key = "?" THEN [m EXCEPT !.showHelp = ~@]
    ELSE IF msg.key = "ctrl+l"
    THEN IF m.focus = focusViewport
         THEN [m EXCEPT !.viewports[m.currentTab + 1] =
                            GotoBottom(SetContent(@, m.output)),
                        !.shown[m.currentTab + 1] = <<m.output>>]
         ELSE m
    ELSE IF msg.key = "]"
    THEN [m EXCEPT !.currentTab = NextTabIndex(@, Len(m.viewports))]
    ELSE IF msg.key = "["
    THEN [m EXCEPT !.currentTab = PrevTabIndex(@, Len(m.viewports))]
    ELSE m

\* A first switch whose next-tab also draws m.output into the tab it leaves.
GlobalKeysTabRedraws(m, msg) ==
    IF msg.key = "ctrl+n" THEN [m EXCEPT !.focus = GoRem(@ + 1, NumFocus)]
    ELSE IF msg.key = "ctrl+p" THEN [m EXCEPT !.focus = GoRem(@ + 2, NumFocus)]
    ELSE IF msg.key = "q" THEN [m EXCEPT !.quit = TRUE]
    ELSE IF msg.key = "?" THEN [m EXCEPT !.showHelp = ~@]
    ELSE IF msg.key = "ctrl+l"
    THEN IF m.focus = focusViewport
         THEN [m EXCEPT !.viewports[m.currentTab + 1] =
                            GotoBottom(SetContent(@, m.output)),
                        !.shown[m.currentTab + 1] = <<m.output>>]
         ELSE m
    ELSE IF msg.key = "]"
    THEN [m EXCEPT !.currentTab = NextTabIndex(@, Len(m.viewports)),
                   !.viewports[m.currentTab + 1] = SetContent(@, m.output)]
    ELSE IF msg.key = "["
    THEN [m EXCEPT !.currentTab = PrevTabIndex(@, Len(m.viewports))]
    ELSE m

\* model.Update, tea.KeyMsg: the first switch, the bindings served in every
\* focus state.
GlobalKeys(m, msg) ==
    IF msg.key = "ctrl+n" THEN [m EXCEPT !.focus = GoRem(@ + 1, NumFocus)]
    ELSE IF msg.key = "ctrl+p" THEN [m EXCEPT !.focus = GoRem(@ + 2, NumFocus)]
    ELSE IF msg.key = "q" THEN [m EXCEPT !.quit = TRUE]
    ELSE IF msg.key = "?" THEN [m EXCEPT !.showHelp = ~@]
    ELSE IF msg.key = "ctrl+l"
    THEN IF m.focus = focusViewport
         THEN [m EXCEPT !.viewports[m.currentTab + 1] =
                            GotoBottom(SetContent(@, m.output)),
                        !.shown[m.currentTab + 1] = <<m.output>>]
         ELSE m
    ELSE IF msg.key = "]"
    THEN [m EXCEPT !.currentTab = NextTabIndex(@, Len(m.viewports))]
    ELSE IF msg.key = "["
    THEN [m EXCEPT !.currentTab = PrevTabIndex(@, Len(m.viewports))]
    ELSE m

\* model.Update, tea.KeyMsg: Execute in the Selector.
ExecuteSelected(m, msg) ==
    LET idx == Index(m.list)
    IN  IF idx >= 0 /\ idx < Len(m.commands)
        THEN LET cmd == m.commands[idx + 1]
             IN  IF cmd.prompt
                 THEN [m EXCEPT !.input = << >>,
                                !.focus = focusInput,
                                !.prompInput = TRUE,
                                !.currentIndex = idx,
                                !.returned = TRUE]
                 ELSE runCommand(m, cmd, msg.ok)
        ELSE m

\* A submit that stores the argv it built in the Command Table.
SubmitInputStoresArgv(m, msg) ==
    LET inputValue == m.input
        ran ==
            IF inputValue # << >>
            THEN IF m.prompInput
                 THEN LET idx == m.currentIndex
                          m1 == IF idx >= 0 /\ idx < Len(m.commands)
                                THEN LET cmd == m.commands[idx + 1]
                                         fullCommand ==
                                             [name |-> cmd.name,
                                              cmd |-> Append(cmd.cmd, inputValue),
                                              prompt |-> FALSE]
                                     IN  runCommand([m EXCEPT !.commands[idx + 1].cmd =
                                                       fullCommand.cmd],
                                                    fullCommand, msg.ok)
                                ELSE m
                      IN  [m1 EXCEPT !.prompInput = FALSE]
                 ELSE runCommand(m, [name |-> inputValue,
                                     cmd |-> Fields(inputValue),
                                     prompt |-> FALSE], msg.ok)
            ELSE m
    IN  [ran EXCEPT !.input = << >>, !.focus = focusList]

\* model.Update, tea.KeyMsg: "enter" in the Input.
SubmitInput(m, msg) ==
    LET inputValue == m.input
        ran ==
            IF inputValue # << >>
            THEN IF m.prompInput
                 THEN LET idx == m.currentIndex
                          m1 == IF idx >= 0 /\ idx < Len(m.commands)
                                THEN LET cmd == m.commands[idx + 1]
                                         fullCommand ==
                                             [name |-> cmd.name,
                                              cmd |-> Append(cmd.cmd, inputValue),
                                              prompt |-> FALSE]
                                     IN  runCommand(m, fullCommand, msg.ok)
                                ELSE m
                      IN  [m1 EXCEPT !.prompInput = FALSE]
                 ELSE runCommand(m, [name |-> inputValue,
                                     cmd |-> Fields(inputValue),
                                     prompt |-> FALSE], msg.ok)
            ELSE m
    IN  [ran EXCEPT !.input = << >>, !.focus = focusList]

\* A completion-advance that moves the cursor two candidates on.
AdvanceCompletionSkip(m) ==
    IF Len(m.completions) > 0
    THEN LET i == GoRem(m.currentIndex + 2, Len(m.completions))
         IN  [m EXCEPT !.currentIndex = i, !.input = m.completions[i + 1]]
    ELSE m

\* model.Update, tea.KeyMsg: "tab" in the Input.
AdvanceCompletion(m) ==
    IF Len(m.completions) > 0
    THEN LET i == GoRem(m.currentIndex + 1, Len(m.completions))
         IN  [m EXCEPT !.currentIndex = i, !.input = m.completions[i + 1]]
    ELSE m

\* A dispatch that opens the picker on the filter key in the Selector too.
DispatchFilterAnywhere(m, msg) ==
    IF m.focus = focusList /\ msg.key = "enter" THEN ExecuteSelected(m, msg)
    ELSE IF m.focus = focusInput
    THEN IF msg.key = "enter" THEN SubmitInput(m, msg)
         ELSE IF msg.key = "tab" THEN AdvanceCompletion(m)
         ELSE m
    ELSE IF msg.key = "/"
    THEN filterOutput(m, msg.pick)
    ELSE m

\* model.Update, tea.KeyMsg: the focus-gated if / else-if chain.
Dispatch(m, msg) ==
    IF m.focus = focusList /\ msg.key = "enter" THEN ExecuteSelected(m, msg)
    ELSE IF m.focus = focusInput
    THEN IF msg.key = "enter" THEN SubmitInput(m, msg)
         ELSE IF msg.key = "tab" THEN AdvanceCompletion(m)
         ELSE m
    ELSE IF m.focus = focusViewport /\ msg.key = "/"
    THEN filterOutput(m, msg.pick)
    ELSE m

\* model.Update, tea.MouseMsg: a left click.
MouseLeft(m) ==
    IF m.focus = focusList THEN [m EXCEPT !.focus = focusViewport]
    ELSE IF m.focus = focusViewport THEN [m EXCEPT !.focus = focusInput]
    ELSE [m EXCEPT !.focus = focusList]

\* A forwarding that hands every message to the list.
ForwardToSelector(m, msg) ==
    LET r == ListUpdate(m.list, msg, Len(m.commands))
    IN  [m EXCEPT !.list = r.list, !.quit = r.quit,
                  !.forwarded = Append(@, focusList)]

\* model.Update: the message goes to the component that holds focus now.
Forward(m, msg) ==
    IF m.focus = focusList
    THEN LET r == ListUpdate(m.list, msg, Len(m.commands))
         IN  [m EXCEPT !.list = r.list, !.quit = r.quit,
                       !.forwarded = Append(@, focusList)]
    ELSE IF m.focus = focusInput
    THEN [m EXCEPT !.input = InputUpdate(@, msg),
                   !.forwarded = Append(@, focusInput)]
    ELSE [m EXCEPT !.viewports[m.currentTab + 1] = ViewportUpdate(@, msg),
                   !.forwarded = Append(@, focusViewport)]

\* model.Update
Update(m, msg) ==
    IF msg.type = "key"
    THEN LET m1 == GlobalKeys(m, msg)
         IN  IF m1.quit THEN m1
             ELSE LET m2 == Dispatch(m1, msg)
                  IN  IF m2.returned THEN m2 ELSE Forward(m2, msg)
    ELSE IF msg.type = "mouse" THEN Forward(MouseLeft(m), msg)
    ELSE Forward(m, msg)

\* ---------------------------------------------------------------- steps
\* The inputs the first claim lets come between the selection of a prompting
\* command and its submit: typing, completion-advance, tab switching.
KeepsPrompt(msg) == msg.type = "key" /\ msg.key \in {"rune", "tab", "]", "["}

\* The program runs until Update returns tea.Quit; the model follows a
\* session for MaxSteps messages.
Running == ~quit /\ steps < MaxSteps

\* The effect of one call of Update on msg, entered with the model value m.
Apply(m, msg) ==
    /\ \E r \in {Update(m, msg)} :
       LET submit == msg.type = "key" /\ msg.key = "enter" /\ focus = focusInput
           advance == msg.type = "key" /\ msg.key = "tab" /\ focus = focusInput
           adv == IF advance /\ (currentIndex = NoIndex \/ advCount > 0)
                  THEN advCount + 1 ELSE 0
       IN  /\ list' = r.list
           /\ viewports' = r.viewports
           /\ input' = r.input
           /\ output' = r.output
           /\ focus' = r.focus
           /\ commands' = r.commands
           /\ showHelp' = r.showHelp
           /\ completions' = r.completions
           /\ currentIndex' = r.currentIndex
           /\ prompInput' = r.prompInput
           /\ currentTab' = r.currentTab
           /\ quit' = r.quit
           /\ spawned' = r.spawned
           /\ tabLog' = r.tabLog
           /\ pendingCommand' =
                  IF r.returned THEN SelectedItem(list)
                  ELSE IF KeepsPrompt(msg) THEN pendingCommand ELSE 0
           /\ promptedSinceSubmit' =
                  IF r.returned THEN TRUE
                  ELSE IF submit THEN FALSE ELSE promptedSinceSubmit
           /\ advCount' = adv
           /\ found' = r.found
           /\ shown' = r.shown

\* One call of Update on msg, taken as a single step.
Step(msg) ==
    /\ Apply(M, msg)
    /\ steps' = steps + 1
    /\ UNCHANGED runVars

KeyNextFocus == Running /\ Step(KeyMsg("ctrl+n"))
KeyPrevFocus == Running /\ Step(KeyMsg("ctrl+p"))
KeyQuit == Running /\ Step(KeyMsg("q"))
KeyHelp == Running /\ Step(KeyMsg("?"))
KeyRefresh == Running /\ Step(KeyMsg("ctrl+l"))
KeyNextTab == Running /\ Step(KeyMsg("]"))
KeyPrevTab == Running /\ Step(KeyMsg("["))
KeyExecute ==
    Running /\ \E ok \in BOOLEAN : Step(Msg("key", "enter", "", ok, -1, << >>))
KeyTab == Running /\ Step(KeyMsg("tab"))
KeyFilter ==
    /\ Running
    /\ \E pick \in -1..(NumLines(output) - 1) :
           Step(Msg("key", "/", "", TRUE, pick, << >>))
KeyRune ==
    Running /\ \E ch \in Runes : Step(Msg("key", "rune", ch, TRUE, -1, << >>))
KeyUp == Running /\ Step(KeyMsg("up"))
KeyDown == Running /\ Step(KeyMsg("down"))
KeyEsc == Running /\ Step(KeyMsg("esc"))
MouseClick == Running /\ \E pane \in Panes : Step(MouseMsg(pane))
FilterMatches ==
    /\ Running
    /\ focus = focusList
    /\ list.state = "filtering"
    /\ list.text
    /\ \E vis \in FilterResults : Step(Msg("matches", "", "", TRUE, -1, vis))

Next ==
    \/ KeyNextFocus
    \/ KeyPrevFocus
    \/ KeyQuit
    \/ KeyHelp
    \/ KeyRefresh
    \/ KeyNextTab
    \/ KeyPrevTab
    \/ KeyExecute
    \/ KeyTab
    \/ KeyFilter
    \/ KeyRune
    \/ KeyUp
    \/ KeyDown
    \/ KeyEsc
    \/ MouseClick
    \/ FilterMatches

Spec == Init /\ [][Next]_vars

\* ------------------------------------------ the first controller (main.go)
\* The controller of src/main.go: one viewport, no tabs, no prompting
\* commands, the list's own filtering disabled.  It uses the variables of
\* the tabbed controller: viewports holds its single viewport.

\* The Command Table of main.go: a command is a name and an argv.
MainCommands ==
    [i \in 1..Len(ConfigCommands) |->
        [name |-> ConfigCommands[i].name, cmd |-> ConfigCommands[i].cmd]]

\* err of runCommand for an empty argv: fmt.Errorf("empty command").
EmptyCommandError == <<"empty", SP, "command">>

\* main.go initialModel
MainInit ==
    /\ commands = MainCommands
    /\ completions \in ConfigCompletions
    /\ list = [state |-> "unfiltered", visible |-> AllItems(Len(MainCommands)),
               cursor |-> 0, text |-> FALSE]
    /\ viewports = << [content |-> <<"Output will be displayed here...">>,
                       yOffset |-> 0] >>
    /\ input = << >>
    /\ output = << >>
    /\ focus = focusList
    /\ showHelp = FALSE
    /\ currentIndex = NoIndex
    /\ prompInput = FALSE
    /\ currentTab = 0
    /\ quit = FALSE
    /\ spawned = << >>
    /\ tabLog = [i \in 1..NumTabs |-> << >>]
    /\ pendingCommand = 0
    /\ promptedSinceSubmit = FALSE
    /\ advCount = 0
    /\ found = << >>
    /\ shown = [i \in 1..NumTabs |-> << >>]
    /\ steps = 0
    /\ pc = "idle"
    /\ children = << >>
    /\ msgs = << >>
    /\ logMark = << >>

\* main.go runCommand: the captured output and the error ("" for nil), and
\* whether a process was started.
MainRunCommand(cmd, ok) ==
    IF Len(cmd) = 0
    THEN [output |-> << >>, err |-> EmptyCommandError, started |-> FALSE]
    ELSE IF ok
    THEN [output |-> ProcOutput, err |-> << >>, started |-> TRUE]
    ELSE [output |-> << >>, err |-> ProcError, started |-> TRUE]

\* main.go Update: what follows a call of runCommand, in the Selector and in
\* the Input alike: fmt.Sprintf("%s: %s\n", name, err or output) is appended
\* to m.output and the viewport shows m.output from its bottom.
MainLogRun(m, name, cmd, ok) ==
    LET r == MainRunCommand(cmd, ok)
        out == m.output \o name \o <<": ">>
               \o (IF r.err # << >> THEN r.err ELSE r.output) \o <<NL>>
    IN  [m EXCEPT !.output = out,
                  !.spawned = IF r.started THEN Append(@, cmd) ELSE @,
                  !.viewports[1] = GotoBottom(SetContent(@, out))]

\* main.go Update, tea.KeyMsg: the first switch.
MainGlobalKeys(m, msg) ==
    IF msg.key = "ctrl+n"
    THEN [m EXCEPT !.focus = IF @ = focusList THEN focusViewport
                             ELSE IF @ = focusViewport THEN focusInput
                             ELSE focusList]
    ELSE IF msg.key = "ctrl+p"
    THEN [m EXCEPT !.focus = IF @ = focusList THEN focusInput
                             ELSE IF @ = focusViewport THEN focusList
                             ELSE focusViewport]
    ELSE IF msg.key = "q" THEN [m EXCEPT !.quit = TRUE]
    ELSE IF msg.key = "?" THEN [m EXCEPT !.showHelp = ~@]
    ELSE IF msg.key = "ctrl+l"
    THEN IF m.focus = focusViewport
         THEN [m EXCEPT !.viewports[1] = GotoBottom(SetContent(@, m.output))]
         ELSE m
    ELSE m

\* main.go filterOutput
MainFilterOutput(m, pick) ==
    LET lines == Split(m.output, NL)
    IN  IF pick >= 0 /\ pick < Len(lines)
        THEN [m EXCEPT !.viewports[1] = SetContent(@, lines[pick + 1]),
                       !.found = <<pick>>]
        ELSE [m EXCEPT !.found = <<pick>>]

\* main.go Update, tea.KeyMsg: the switch on the pane that holds focus.
MainDispatch(m, msg) ==
    IF m.focus = focusList
    THEN IF msg.key = "enter"
         THEN LET idx == Index(m.list)
              IN  IF idx >= 0 /\ idx < Len(m.commands)
                  THEN MainLogRun(m, m.commands[idx + 1].name,
                                  m.commands[idx + 1].cmd, msg.ok)
                  ELSE m
         ELSE m
    ELSE IF m.focus = focusViewport
    THEN IF msg.key = "/" THEN MainFilterOutput(m, msg.pick) ELSE m
    ELSE IF msg.key = "enter"
         THEN LET inputValue == m.input
                  ran == MainLogRun(m, inputValue, Fields(inputValue), msg.ok)
              IN  [ran EXCEPT !.input = << >>, !.currentIndex = NoIndex]
         ELSE IF msg.key = "tab" THEN AdvanceCompletion(m)
         ELSE m

\* main.go Update: the message goes to the component that holds focus; the
\* list has SetFilteringEnabled(false), so its filter key is disabled.
MainForward(m, msg) ==
    IF m.focus = focusList
    THEN IF msg.key = "/" THEN m
         ELSE LET r == ListUpdate(m.list, msg, Len(m.commands))
              IN  [m EXCEPT !.list = r.list, !.quit = r.quit]
    ELSE IF m.focus = focusInput
    THEN [m EXCEPT !.input = InputUpdate(@, msg)]
    ELSE [m EXCEPT !.viewports[1] = ViewportUpdate(@, msg)]

\* main.go Update
MainUpdate(m, msg) ==
    LET m1 == MainGlobalKeys(m, msg)
    IN  IF m1.quit THEN m1 ELSE MainForward(MainDispatch(m1, msg), msg)

\* One call of main.go's Update on msg.
MainStep(msg) ==
    /\ \E r \in {MainUpdate(M, msg)} :
           /\ steps' = steps + 1
           /\ list' = r.list
           /\ viewports' = r.viewports
           /\ input' = r.input
           /\ output' = r.output
           /\ focus' = r.focus
           /\ showHelp' = r.showHelp
           /\ currentIndex' = r.currentIndex
           /\ quit' = r.quit
           /\ spawned' = r.spawned
           /\ found' = r.found
    /\ UNCHANGED <<commands, completions, prompInput, currentTab, tabLog,
                   pendingCommand, promptedSinceSubmit, advCount, shown,
                   pc, children, msgs, logMark>>

MainKeyNextFocus == Running /\ MainStep(KeyMsg("ctrl+n"))
MainKeyPrevFocus == Running /\ MainStep(KeyMsg("ctrl+p"))
MainKeyQuit == Running /\ MainStep(KeyMsg("q"))
MainKeyHelp == Running /\ MainStep(KeyMsg("?"))
MainKeyRefresh == Running /\ MainStep(KeyMsg("ctrl+l"))
MainKeyExecute ==
    Running /\ \E ok \in BOOLEAN : MainStep(Msg("key", "enter", "", ok, -1, << >>))
MainKeyTab == Running /\ MainStep(KeyMsg("tab"))
MainKeyFilter ==
    /\ Running
    /\ \E pick \in -1..(NumLines(output) - 1) :
           MainStep(Msg("key", "/", "", TRUE, pick, << >>))
MainKeyRune ==
    Running /\ \E ch \in Runes : MainStep(Msg("key", "rune", ch, TRUE, -1, << >>))
MainKeyUp == Running /\ MainStep(KeyMsg("up"))
MainKeyDown == Running /\ MainStep(KeyMsg("down"))
MainKeyEsc == Running /\ MainStep(KeyMsg("esc"))

MainNext ==
    \/ MainKeyNextFocus
    \/ MainKeyPrevFocus
    \/ MainKeyQuit
    \/ MainKeyHelp
    \/ MainKeyRefresh
    \/ MainKeyExecute
    \/ MainKeyTab
    \/ MainKeyFilter
    \/ MainKeyRune
    \/ MainKeyUp
    \/ MainKeyDown
    \/ MainKeyEsc

MainSpec == MainInit /\ [][MainNext]_vars

\* ================================================================ claims
\* The Selector shows its rows for browsing (it is not taking filter text)
\* and the row it highlights is a command of the table.
HighlightedValid ==
    /\ list.state # "filtering"
    /\ SelectedItem(list) \in 1..Len(commands)

\* A step that presses Execute while focus is Selector.
ExecuteInSelector == KeyExecute /\ focus = focusList

\* A step that submits the Input.
Submit == KeyExecute /\ focus = focusInput

\* C1: submitting non-empty text T after a prompting command P was selected,
\* with only typing, completion-advance and tab switching in between, runs
\* exactly one process, argv = P.argv followed by T, and ends with focus
\* Selector and no PromptContext.
C1_PromptSubmitRunsPending ==
    [][ (Submit /\ pendingCommand # 0 /\ input # << >>)
        => /\ spawned' = << Append(commands[pendingCommand].cmd, input) >>
           /\ focus' = focusList
           /\ ~prompInput' ]_vars

\* C2: while a PromptContext is active, next-focus and previous-focus leave
\* focus at Input.
C2_FocusPinnedWhilePrompting ==
    [][ ((KeyNextFocus \/ KeyPrevFocus) /\ prompInput /\ focus = focusInput)
        => focus' = focusInput ]_vars

\* C3: a PromptContext is present only if focus is Input.
C3_PromptOnlyInInput == prompInput => focus = focusInput

\* C4: Execute on a highlighted command with requiresPrompt = true moves
\* focus to Input and creates a PromptContext for that command; no process is
\* spawned, the log and every tab's displayed content are unchanged.
C4_PromptingSelection ==
    [][ (ExecuteInSelector /\ HighlightedValid
         /\ commands[SelectedItem(list)].prompt)
        => /\ focus' = focusInput
           /\ prompInput'
           /\ currentIndex' = SelectedItem(list) - 1
           /\ spawned' = << >>
           /\ output' = output
           /\ viewports' = viewports ]_vars

\* C5: Execute on a highlighted command with requiresPrompt = false runs a
\* process with the command's argv unchanged, and focus is Selector after
\* the run as before it, whether the process succeeds or fails.
C5_DirectRun ==
    [][ (ExecuteInSelector /\ HighlightedValid
         /\ ~commands[SelectedItem(list)].prompt)
        => /\ spawned' = << commands[SelectedItem(list)].cmd >>
           /\ focus' = focusList ]_vars

\* C6: submitting non-empty text when no prompting command was selected
\* since the last submit runs the whitespace-split text and nothing of the
\* Command Table; afterwards the input field is empty and focus is Selector.
C6_FreeFormSubmit ==
    [][ (Submit /\ ~promptedSinceSubmit /\ input # << >>)
        => /\ spawned' = IF Fields(input) = << >> THEN << >>
                         ELSE << Fields(input) >>
           /\ input' = << >>
           /\ focus' = focusList ]_vars

\* C7: what a tab displays after a run or a refresh holds only the entries
\* of the commands run while that tab was active.
C7_LogPerTab ==
    [][ ((KeyExecute /\ spawned' # << >>)
         \/ (KeyRefresh /\ focus = focusViewport))
        => viewports'[currentTab' + 1].content = tabLog'[currentTab' + 1] ]_vars

\* C8: a command run, a fuzzy-filter selection and a refresh leave the
\* displayed content and the scroll position of every inactive tab as they
\* were.
C8_InactiveTabsKept ==
    [][ \/ \A t \in 1..NumTabs :
               t # currentTab + 1 => viewports'[t] = viewports[t]
        \/ ~(KeyExecute \/ KeyFilter \/ KeyRefresh) ]_vars

\* A command has just run in a tab other than the first, whose viewport
\* still shows the log of an earlier run.
C8_Witness ==
    /\ spawned # << >>
    /\ currentTab # 0
    /\ viewports[currentTab + 1].content = output
    /\ viewports[1].content = tabLog[1]
    /\ tabLog[1] # << >>

RECURSIVE IterPrevTab(_, _)
\* k previous-tab inputs from index i.
IterPrevTab(i, k) ==
    IF k = 0 THEN i ELSE IterPrevTab(PrevTabIndex(i, NumTabs), k - 1)

RECURSIVE IterNextTab(_, _)
\* k next-tab inputs from index i.
IterNextTab(i, k) ==
    IF k = 0 THEN i ELSE IterNextTab(NextTabIndex(i, NumTabs), k - 1)

\* C9: next-tab sets the active index to (i+1) mod N and previous-tab to
\* (i-1+N) mod N; the index stays in 0..N-1; N previous-tab (or next-tab)
\* inputs return to the start, from 0 by way of 2 and 1; next-tab followed by
\* previous-tab is the identity.
C9_TabNavigationCyclic ==
    /\ [](/\ currentTab \in 0..(NumTabs - 1)
          /\ Len(viewports) = NumTabs
          /\ \A i \in 0..(NumTabs - 1) :
                /\ PrevTabIndex(NextTabIndex(i, NumTabs), NumTabs) = i
                /\ IterPrevTab(i, NumTabs) = i
                /\ IterNextTab(i, NumTabs) = i
          /\ <<IterPrevTab(0, 1), IterPrevTab(0, 2), IterPrevTab(0, 3)>>
                = <<2, 1, 0>>)
    /\ [][ /\ KeyNextTab => currentTab' = (currentTab + 1) % NumTabs
           /\ KeyPrevTab => currentTab' = (currentTab - 1 + NumTabs) % NumTabs
         ]_vars

\* The first input of the session was previous-tab: from 0 to the last tab.
C9_Witness == steps = 1 /\ currentTab = NumTabs - 1

\* C10: from cursor "none", the k-th consecutive completion-advance in the
\* Input sets the input field to candidates[(k-1) mod N]; with no candidates
\* a completion-advance changes neither the input field nor the cursor.
C10_CompletionCycles ==
    /\ []((advCount > 0 /\ completions # << >>)
          => input = completions[((advCount - 1) % Len(completions)) + 1])
    /\ [][ (KeyTab /\ focus = focusInput /\ completions = << >>)
           => (input' = input /\ currentIndex' = currentIndex) ]_vars

\* The fourth consecutive advance over three candidates shows the first again.
C10_Witness ==
    /\ advCount = 4
    /\ Len(completions) = 3
    /\ input = completions[1]

\* ---------------------------------------------------------------- C11..
\* The content the active tab displays.
Displayed == viewports[currentTab + 1].content

\* s is a prefix of t.
IsPrefix(s, t) == Len(s) <= Len(t) /\ SubSeq(t, 1, Len(s)) = s

\* The key that executes in the Selector and submits in the Input, with the
\* outcome of the child process it may start.
EnterMsg(ok) == Msg("key", "enter", "", ok, -1, << >>)

\* "Error: " + description + "\n"
ErrorLine == <<"Error: ">> \o ProcError \o <<NL>>

\* The log entry of one run of argv.
RunEntry(argv, ok) ==
    <<"Running command: ">> \o Join(argv, <<SP>>) \o <<NL>>
    \o (IF ok THEN ProcOutput ELSE ErrorLine)

\* C11: whenever the input field's content changes by any means other than
\* a completion-advance, the completion cursor is "none" afterwards.
C11_EditResetsCursor ==
    [][ \/ input' = input
        \/ currentIndex' = NoIndex
        \/ (KeyTab /\ focus = focusInput) ]_vars

\* C12: a fuzzy-filter selection of line L makes the active tab display
\* exactly L and leaves the log unchanged; a refresh with focus Viewport
\* displays the full log again; a command run displays the full log with the
\* new entry appended.
C12_FilterThenRefresh ==
    [][ /\ (found' # << >> /\ found'[1] >= 0)
           => /\ viewports'[currentTab + 1].content
                     = Split(output, NL)[found'[1] + 1]
              /\ output' = output
        /\ \/ focus # focusViewport
           \/ (viewports'[currentTab + 1].content = output /\ output' = output)
           \/ ~KeyRefresh
        /\ spawned' # << >>
           => /\ viewports'[currentTab' + 1].content = output'
              /\ IsPrefix(output, output')
              /\ Len(output') > Len(output) ]_vars

\* A line of a non-empty log was selected and is all the active tab displays.
C12_Witness ==
    /\ found # << >>
    /\ found[1] >= 0
    /\ output # << >>
    /\ Displayed # << >>
    /\ Displayed = Split(output, NL)[found[1] + 1]

\* C13: when the picker returns no selection, the displayed content of every
\* tab, the log, focus, the active tab index and the PromptContext are
\* unchanged, and nothing is run or logged.
C13_FilterAbortIsNoOp ==
    [][ found' = <<-1>>
        => /\ viewports' = viewports
           /\ output' = output
           /\ tabLog' = tabLog
           /\ focus' = focus
           /\ currentTab' = currentTab
           /\ prompInput' = prompInput
           /\ currentIndex' = currentIndex
           /\ spawned' = << >> ]_vars

\* The picker was aborted over a non-empty log that the tab displays.
C13_Witness ==
    /\ found = <<-1>>
    /\ output # << >>
    /\ Displayed = output

\* C14: a click on pane P, with no prompt pending, sets focus to P.
C14_ClickFocusesPane ==
    [][ \/ prompInput
        \/ \A P \in Panes : (Running /\ Step(MouseMsg(P))) => focus' = P ]_vars

\* C15: in every focus state a refresh makes the active tab display its
\* full log.
C15_RefreshIsGlobal ==
    [][ KeyRefresh => viewports'[currentTab + 1].content = output ]_vars

\* C16: a run of a non-empty argv appends "Running command: " + argv joined
\* by single spaces + "\n", then the captured output on success or "Error: "
\* + description + "\n" on failure; right after it the active tab displays
\* the whole log, scrolled to the bottom.
C16_RunAppendsEntry ==
    [][ \/ spawned' = << >>
        \/ /\ Len(spawned') = 1
           /\ spawned'[1] # << >>
           /\ \E ok \in BOOLEAN :
                  /\ Running /\ Step(EnterMsg(ok))
                  /\ output' = output \o RunEntry(spawned'[1], ok)
           /\ viewports'[currentTab' + 1].content = output'
           /\ viewports'[currentTab' + 1].yOffset
                  = MaxYOffset(viewports'[currentTab' + 1]) ]_vars

\* A run has just ended on a log long enough to be scrolled by two lines.
C16_Witness ==
    /\ spawned # << >>
    /\ Displayed = output
    /\ viewports[currentTab + 1].yOffset = MaxYOffset(viewports[currentTab + 1])
    /\ viewports[currentTab + 1].yOffset >= 2

\* C17: a run that fails shows as an "Error: " line in the log and nothing
\* else; the step ends in the control state a successful run ends in (focus
\* Selector, no PromptContext, input field empty) and the session goes on.
C17_FailureIsRecoverable ==
    [][ \/ spawned' = << >>
        \/ ~(Running /\ Step(EnterMsg(FALSE)))
        \/ /\ output' = output \o RunEntry(spawned'[1], FALSE)
           /\ focus' = focusList
           /\ ~prompInput'
           /\ input' = << >>
           /\ ~quit'
           /\ LET s == Update(M, EnterMsg(TRUE))
              IN  /\ focus' = s.focus
                  /\ prompInput' = s.prompInput
                  /\ input' = s.input
                  /\ list' = s.list
                  /\ currentIndex' = s.currentIndex
                  /\ currentTab' = s.currentTab
                  /\ quit' = s.quit ]_vars

\* The last step ran a command that failed: the log ends with its error line.
C17_Witness ==
    /\ spawned # << >>
    /\ Len(output) >= Len(ErrorLine)
    /\ SubSeq(output, Len(output) - Len(ErrorLine) + 1, Len(output)) = ErrorLine
    /\ focus = focusList
    /\ ~quit

\* C18: running an empty argv (a submit of free-form text that is blank or
\* empty) starts no process and appends nothing to the log; stated here for
\* the controller of main.go.
C18_EmptyArgvIsNoOp ==
    [][ (MainKeyExecute /\ focus = focusInput /\ Fields(input) = << >>)
        => (spawned' = << >> /\ output' = output) ]_vars

\* C19: the log after a step has the log before it as a prefix; fuzzy
\* filter, refresh, tab switching and focus changes leave the log unchanged.
C19_LogAppendOnly ==
    [][ \/ output' = output
        \/ /\ IsPrefix(output, output')
           /\ ~(KeyFilter \/ KeyRefresh \/ KeyNextTab \/ KeyPrevTab
                \/ KeyNextFocus \/ KeyPrevFocus \/ MouseClick) ]_vars

\* A run has appended to a log that already held an entry.
C19_Witness ==
    /\ spawned # << >>
    /\ NumLines(output) >= 5
    /\ \E ok \in BOOLEAN :
           LET e == RunEntry(spawned[1], ok)
           IN  /\ Len(output) > Len(e)
               /\ SubSeq(output, Len(output) - Len(e) + 1, Len(output)) = e

PlainKeys == {"ctrl+n", "ctrl+p", "q", "?", "ctrl+l", "]", "[",
              "tab", "up", "down", "esc"}

\* P holds of every key message the controller can be given in the state
\* at hand (it is given one while the session is Running).
ForAllKeyMsgs(P(_)) ==
    /\ \A k \in PlainKeys : P(KeyMsg(k))
    /\ \A ok \in BOOLEAN : P(EnterMsg(ok))
    /\ \A pick \in -1..(NumLines(output) - 1) :
           P(Msg("key", "/", "", TRUE, pick, << >>))
    /\ \A ch \in Runes : P(Msg("key", "rune", ch, TRUE, -1, << >>))

\* C21: in every reachable state the quit input ends the session, whatever
\* the focus, the PromptContext and the input field hold; the quit step runs
\* no command and appends nothing to the log; an ended session takes no
\* further step.
C21_QuitEndsSession ==
    /\ [](\E r \in {Update(M, KeyMsg("q"))} :
              /\ r.quit
              /\ r.spawned = << >>
              /\ r.output = output)
    /\ [][ ~quit ]_vars
    /\ [][ \/ (quit' /\ spawned' = << >> /\ output' = output)
           \/ ~KeyQuit ]_vars

\* The session was ended from the Input with a prompt pending and text typed.
C21_Witness ==
    /\ quit
    /\ focus = focusInput
    /\ prompInput
    /\ input # << >>

\* The focus after next-focus (k = "ctrl+n") or previous-focus ("ctrl+p")
\* from pane f, in the tabbed controller and in the controller of main.go.
FocusAfter(f, k) == GlobalKeys([focus |-> f], KeyMsg(k)).focus
MainFocusAfter(f, k) == MainGlobalKeys([focus |-> f], KeyMsg(k)).focus

\* The cycle of next-focus, its reverse for previous-focus, in both
\* controllers; three of either are the identity, and so is one after the
\* other.
FocusCycleLaws ==
    /\ <<FocusAfter(focusList, "ctrl+n"), FocusAfter(focusViewport, "ctrl+n"),
         FocusAfter(focusInput, "ctrl+n")>>
           = <<focusViewport, focusInput, focusList>>
    /\ <<FocusAfter(focusList, "ctrl+p"), FocusAfter(focusViewport, "ctrl+p"),
         FocusAfter(focusInput, "ctrl+p")>>
           = <<focusInput, focusList, focusViewport>>
    /\ \A f \in Panes :
          /\ MainFocusAfter(f, "ctrl+n") = FocusAfter(f, "ctrl+n")
          /\ MainFocusAfter(f, "ctrl+p") = FocusAfter(f, "ctrl+p")
          /\ FocusAfter(FocusAfter(f, "ctrl+n"), "ctrl+p") = f
          /\ FocusAfter(FocusAfter(f, "ctrl+p"), "ctrl+n") = f
          /\ \A k \in {"ctrl+n", "ctrl+p"} :
                FocusAfter(FocusAfter(FocusAfter(f, k), k), k) = f

\* C23: with no PromptContext active next-focus cycles Selector -> Viewport
\* -> Input -> Selector and previous-focus the reverse; three of either
\* return to the starting pane, next-focus then previous-focus is the
\* identity; focus is always one of the three panes.  In both controllers.
C23_FocusCycle ==
    /\ focus \in Panes
    /\ FocusCycleLaws
    /\ (Running /\ ~prompInput)
       => \A k \in {"ctrl+n", "ctrl+p"} :
              Update(M, KeyMsg(k)).focus = FocusAfter(focus, k)

\* The first input of the session was previous-focus: from Selector to Input.
C23_Witness == steps = 1 /\ focus = focusInput /\ ~prompInput

\* The log, the displayed content, the input field and the completion
\* cursor are the same after the step as before it.
PaneEffectsUnchanged ==
    /\ output' = output
    /\ viewports' = viewports
    /\ input' = input
    /\ currentIndex' = currentIndex

FilterMsg(pick) == Msg("key", "/", "", TRUE, pick, << >>)

\* The result r of Update has the log, the displayed content and the
\* completion cursor of the state at hand, and has run nothing.
KeepsLogAndDisplay(r) ==
    /\ r.output = output
    /\ r.viewports = viewports
    /\ r.currentIndex = currentIndex
    /\ r.spawned = << >>

LongArgv == << <<"ls">>, <<"-l">>, <<"-a">> >>

\* The strings a prompt submit can append.
Texts == { <<"a">>, <<"a.txt">> }

\* append(cmd.cmd, inputValue) returns the argv followed by the text and
\* leaves the strings of cmd.cmd as they were, also when repeated and when
\* the slice has spare capacity.
AppendKeepsOperand ==
    \A words \in {ConfigCommands[i].cmd : i \in 1..Len(ConfigCommands)}
                 \cup {LongArgv} :
        \A x \in Texts, y \in Texts :
            LET first == GoAppend(extractCmd(words), x)
                second == GoAppend(first.operand, y)
            IN  /\ SliceValue(extractCmd(words)) = words
                /\ SliceValue(first.slice) = Append(words, x)
                /\ SliceValue(first.operand) = words
                /\ SliceValue(second.slice) = Append(words, y)
                /\ SliceValue(second.operand) = words

C26_TabSwitchFrame ==
    [][ \/ /\ focus' = focus
           /\ prompInput' = prompInput
           /\ currentIndex' = currentIndex
           /\ output' = output
           /\ viewports' = viewports
           /\ spawned' = << >>
        \/ ~(KeyNextTab \/ KeyPrevTab) ]_vars

\* The first input of the session was next-tab.
C26_Witness == steps = 1 /\ currentTab = 1 /\ focus = focusList

\* What tab t displays at startup.
InitialContent(t) ==
    IF t = 1 THEN <<"Output will be displayed here...">> ELSE << >>

\* C27 as stated: each tab displays its initial content, or the log as it stood at
\* that tab's most recent run or refresh (a prefix of the log), or one line
\* of that log.
C27_DisplayedContentKinds ==
    \A t \in 1..NumTabs :
        /\ shown[t] # << >> => IsPrefix(shown[t][1], output)
        /\ \/ viewports[t].content = InitialContent(t)
           \/ /\ shown[t] # << >>
              /\ \/ viewports[t].content = shown[t][1]
                 \/ \E i \in 1..NumLines(shown[t][1]) :
                        viewports[t].content = Split(shown[t][1], NL)[i]

\* line is one of the lines of the log as it stood at some earlier time,
\* that is, of a prefix of the log.
LineOfEarlierLog(line) ==
    \E n \in 0..Len(output) :
        LET lines == Split(SubSeq(output, 1, n), NL)
        IN  \E i \in 1..Len(lines) : line = lines[i]

\* C27, amended: each tab displays its initial content, or the log as it
\* stood at that tab's most recent run or refresh (a prefix of the log), or
\* one line of the log as it stood when the line was selected, which need
\* not be the log of that tab's most recent run or refresh.
C27_DisplayedContentAmended ==
    \A t \in 1..NumTabs :
        /\ shown[t] # << >> => IsPrefix(shown[t][1], output)
        /\ \/ viewports[t].content = InitialContent(t)
           \/ (shown[t] # << >> /\ viewports[t].content = shown[t][1])
           \/ LineOfEarlierLog(viewports[t].content)

\* A tab with no run or refresh of its own displays a line that a run in
\* another tab logged.
C27_Witness ==
    /\ shown[currentTab + 1] = << >>
    /\ found # << >>
    /\ found[1] >= 0
    /\ Displayed # << >>
    /\ Displayed = Split(output, NL)[found[1] + 1]

\* msg is forwarded to the pane that holds focus once the controller has
\* handled it, and to no pane when it selected a prompting command.
ForwardedToFocused(msg) ==
    \E r \in {Update(M, msg)} :
        r.forwarded = IF r.returned THEN << >> ELSE <<r.focus>>

\* C28 as stated: every key event is forwarded to exactly one pane
\* component, the one that holds focus once the controller has handled it,
\* and to none when it selected a prompting command.
C28_ForwardedToFocused == Running => ForAllKeyMsgs(ForwardedToFocused)

\* As ForwardedToFocused, but the quit key is forwarded to no pane; and a
\* help-toggle, next-tab or previous-tab key pressed while focus is Input
\* performs its global action and is typed into the input field.
ForwardedUnlessQuit(msg) ==
    \E r \in {Update(M, msg)} :
        /\ r.forwarded = IF r.returned \/ msg.key = "q" THEN << >>
                         ELSE <<r.focus>>
        /\ (focus = focusInput /\ msg.key \in {"?", "]", "["})
           => /\ r.input = Append(input, msg.key)
              /\ msg.key = "?" => r.showHelp = ~showHelp
              /\ msg.key = "]" => r.currentTab = (currentTab + 1) % NumTabs
              /\ msg.key = "[" =>
                     r.currentTab = (currentTab - 1 + NumTabs) % NumTabs

\* C28, amended: every key event other than quit is forwarded to exactly one
\* pane component, the one that holds focus once the controller has handled
\* it, and to none when it selected a prompting command; the quit key is
\* forwarded to none.  A help-toggle, next-tab or previous-tab key pressed
\* while focus is Input performs its global action and is typed into the
\* input field in the same step.
C28_ForwardedUnlessQuit == Running => ForAllKeyMsgs(ForwardedUnlessQuit)

\* Next-tab was pressed in the empty Input: the second tab is active and the
\* key is in the input field.
C28_Witness ==
    /\ steps = 2
    /\ focus = focusInput
    /\ currentTab = 1
    /\ input = <<"]">>

\* C29: Execute with focus Selector runs, or prompts for, the Command Table
\* entry that the selector highlights, also while the list's filter has
\* narrowed the visible rows.
C29_ExecutesHighlighted ==
    [][ (ExecuteInSelector /\ HighlightedValid)
        => IF commands[SelectedItem(list)].prompt
           THEN /\ prompInput'
                /\ focus' = focusInput
                /\ currentIndex' = SelectedItem(list) - 1
                /\ spawned' = << >>
           ELSE spawned' = << commands[SelectedItem(list)].cmd >> ]_vars

\* ------------------------------------------- a run of a command, in steps
\* The event loop of the program around Update: the terminal's key events
\* wait in msgs and are given to Update one at a time; a call of Update that
\* runs a command is followed through the start of the child process, its
\* exit and the rest of the call.

\* The keys followed: execute or submit, next-focus, next-tab, filter, quit
\* and typed characters.  The outcome of the child process and the line the
\* finder returns are not part of the key: they are drawn when they happen.
RunMsgs ==
    {EnterMsg(TRUE), KeyMsg("ctrl+n"), KeyMsg("]"), KeyMsg("q"), FilterMsg(-1)}
    \cup {Msg("key", "rune", ch, TRUE, -1, << >>) : ch \in Runes}

\* msg with what the finder returns, if msg opens it.
Resolved(msg) ==
    IF msg.key = "/"
    THEN {FilterMsg(pick) : pick \in -1..(NumLines(output) - 1)}
    ELSE {msg}

\* Update on msg reaches c.Run() in runCommand.
Starts(msg) == Update(M, msg).spawned # << >>

\* A loop that gives Update the next message whatever it is doing.
BlockedNever == FALSE

\* c.Run() blocks the call of Update, and the loop with it, until the child
\* process has exited and Update has returned.
Blocked == pc # "idle"

\* The terminal delivers a key event; it waits until the loop takes it.
Arrive ==
    /\ ~quit
    /\ steps + Len(msgs) < MaxEvents
    /\ Len(msgs) < MaxQueue
    /\ \E msg \in RunMsgs : msgs' = Append(msgs, msg)
    /\ UNCHANGED <<modelVars, steps, pc, children, logMark>>

\* Update on a message that runs no command.
Handle ==
    /\ ~Blocked
    /\ ~quit
    /\ msgs # << >>
    /\ ~Starts(Head(msgs))
    /\ \E msg \in Resolved(Head(msgs)) : Apply(M, msg)
    /\ msgs' = Tail(msgs)
    /\ steps' = steps + 1
    /\ UNCHANGED <<pc, children, logMark>>

\* Update on a message that runs a command, up to the start of the child
\* process: m.output += "Running command: ..." and c.Run() has started it.
Spawn ==
    /\ ~Blocked
    /\ ~quit
    /\ msgs # << >>
    /\ Starts(Head(msgs))
    /\ \E r \in {Update(M, Head(msgs))} :
           /\ output' = output \o <<"Running command: ">>
                               \o Join(r.spawned[1], <<SP>>) \o <<NL>>
           /\ children' = Append(children, r.spawned[1])
    /\ logMark' = <<Len(output)>>
    /\ pc' = "running"
    /\ msgs' = Tail(msgs)
    /\ steps' = steps + 1
    /\ UNCHANGED <<list, viewports, input, focus, commands, showHelp,
                   completions, currentIndex, prompInput, currentTab, quit,
                   spawned, tabLog, pendingCommand, promptedSinceSubmit,
                   advCount, found, shown>>

\* The child process exits, with or without an error: c.Run() returns.
ChildExit ==
    /\ pc = "running"
    /\ \E ok \in BOOLEAN : pc' = IF ok THEN "succeeded" ELSE "failed"
    /\ children' = << >>
    /\ UNCHANGED <<modelVars, steps, msgs, logMark>>

\* The rest of the call: the result is appended to m.output, the viewport
\* redrawn, focus and prompt reset, the message forwarded; Update returns.
Return ==
    /\ pc \in {"succeeded", "failed"}
    /\ Apply([M EXCEPT !.output = SubSeq(output, 1, logMark[1])],
             EnterMsg(pc = "succeeded"))
    /\ pc' = "idle"
    /\ logMark' = << >>
    /\ UNCHANGED <<children, msgs, steps>>

RunNext ==
    \/ Arrive
    \/ Handle
    \/ Spawn
    \/ ChildExit
    \/ Return

RunSpec == Init /\ [][RunNext]_vars

\* C22: at most one child process is in flight at any time, and it is in
\* flight only during a run; from the start of the child process to the
\* append of its result to the log no waiting key event is taken and
\* nothing of the state changes, and the step that ends the run appends the
\* result to the log as the start left it.
C22_SynchronousExclusive ==
    /\ [](/\ Len(children) <= 1
          /\ children # << >> <=> pc = "running"
          /\ logMark # << >> <=> pc # "idle")
    /\ [][ pc # "idle" =>
               /\ IsPrefix(msgs, msgs')
               /\ steps' = steps
               /\ IF pc' = "idle"
                  THEN \E ok \in BOOLEAN :
                           output' = output \o (IF ok THEN ProcOutput
                                                ELSE ErrorLine)
                  ELSE UNCHANGED modelVars ]_vars

\* A command is running, its child process is in flight, and a key event
\* that arrived meanwhile waits.
C22_Witness ==
    /\ pc = "running"
    /\ Len(children) = 1
    /\ msgs # << >>

====
